---- MODULE Spec2Model ----
(***************************************************************************)
(* Shape detection pipeline of src/src/main.ts (class ShapeDetector,       *)
(* lines 494-750): binarisation of an RGBA buffer, raster scan with        *)
(* 8-connected breadth-first flood fill, feature computation and the       *)
(* ordered classification chain; and of the evaluation code beside it,     *)
(* calculateMetrics of src/src/evaluation-utils.ts and the                 *)
(* EvaluationManager of src/src/evaluation-manager.ts.                     *)
(*                                                                         *)
(* Numbers that the program keeps as IEEE doubles are modelled as exact    *)
(* rationals where the program's comparison is decided by the rational     *)
(* (extent), and as sound integer intervals [lo, hi] in fixed point where  *)
(* the value is irrational (perimeter, circularity, size penalty).         *)
(***************************************************************************)
EXTENDS Integers, Sequences, FiniteSets, TLC

\* ------------------------------------------------------------------ bounds
\* every mask of at most MaxFg foreground pixels on canvases up to MaxW x MaxH
MaxW == 3
MaxH == 3
MaxFg == 4
\* filled rectangles up to RectMaxW x RectMaxH on a white canvas
RectMaxW == 9
RectMaxH == 12

\* null, as a record so that it compares with shapes, images and results
Null == [isNull |-> TRUE]
\* reading a typed array past its end yields undefined
Undefined == -1
\* an absent pixel buffer (this.data is null)
NullData == <<Undefined>>

Min(a, b) == IF a < b THEN a ELSE b
Max(a, b) == IF a > b THEN a ELSE b
Abs(a) == IF a < 0 THEN 0 - a ELSE a
CeilDiv(a, b) == (a + b - 1) \div b

\* ------------------------------------------------------------------ images
\* colour drawShape paints with by default, and the white background
ShapeColor == <<52, 152, 219, 255>>
White == <<255, 255, 255, 255>>

Cells(w, h) == {<<cx, cy>> : cx \in 0..(w - 1), cy \in 0..(h - 1)}

\* RGBA buffer of a w x h canvas: white, with the cells of fg painted
Paint(w, h, fg) ==
    [i \in 1..(4 * w * h) |->
        LET k == (i - 1) \div 4
            c == ((i - 1) % 4) + 1
        IN IF <<k % w, k \div w>> \in fg THEN ShapeColor[c] ELSE White[c]]

ImageOf(w, h, fg) == [width |-> w, height |-> h, data |-> Paint(w, h, fg)]

MaskImages ==
    UNION {{ImageOf(w, h, fg) : fg \in {m \in SUBSET Cells(w, h) : Cardinality(m) <= MaxFg}} :
              w \in 1..MaxW, h \in 1..MaxH}

\* a filled w x h rectangle at (1,1) on a (w+2) x (h+2) white canvas
RectCells(w, h) == {<<cx, cy>> : cx \in 1..w, cy \in 1..h}
RectImages ==
    {ImageOf(w + 2, h + 2, RectCells(w, h)) : w \in 1..RectMaxW, h \in 1..RectMaxH}

Images == MaskImages \cup RectImages

\* ------------------------------------------------------------------- state
VARIABLES
    imageData,      \* this.imageData
    width,          \* this.width
    height,         \* this.height
    data,           \* this.data
    binaryMatrix,   \* this.binaryMatrix[y][x]
    visited,        \* this.visited[y][x]
    pc,             \* position of the detectShapes invocation
    x, y,           \* raster scan loop counters
    shapes,         \* local shapes list of detectShapes
    queue, pixels,  \* locals of floodFill
    result,         \* value detectShapes returned
    regions,        \* history: pixel list returned by each floodFill of the run
    analysed,       \* history: one entry per analyzeShape call of the run
    returns,        \* history: buffer and shapes list of every call that returned
    taskPc,         \* position of each processImage task
    taskImage,      \* the ImageData each task obtained from its file
    active,         \* the task running on the single JavaScript thread
    input, output,  \* argument and value of a function applied on its own
    testCases,      \* EvaluationManager.testCases
    results,        \* EvaluationManager.results
    currentTestCaseIndex,   \* EvaluationManager.currentTestCaseIndex
    outcome         \* the last call on the EvaluationManager and how it ended

fields == <<imageData, width, height, data, binaryMatrix, visited>>
locals == <<pc, x, y, shapes, queue, pixels, result>>
history == <<regions, analysed, returns>>
tasks == <<taskPc, taskImage>>
pure == <<input, output>>
manager == <<testCases, results, currentTestCaseIndex, outcome>>
vars == <<fields, locals, history, tasks, active, pure, manager>>

\* --------------------------------------------------------------- binarizer
At(d, i) == IF (i + 1) \in DOMAIN d THEN d[i + 1] ELSE Undefined

Threshold == 240
\* the comparison as r <= 240
BelowOrAt(v) == v # Undefined /\ v <= Threshold

\* r < 240 in JavaScript: false when r is undefined
Below(v) == v # Undefined /\ v < Threshold

\* the threshold test reading the alpha byte as a fourth channel
IsForegroundWithAlpha(d, w, cx, cy) ==
    LET i == (cy * w + cx) * 4
    IN Below(At(d, i)) \/ Below(At(d, i + 1)) \/ Below(At(d, i + 2)) \/ Below(At(d, i + 3))

IsForeground(d, w, cx, cy) ==
    LET i == (cy * w + cx) * 4
    IN Below(At(d, i)) \/ Below(At(d, i + 1)) \/ Below(At(d, i + 2))

BinaryMatrixOf(d, w, h) ==
    [cy \in 0..(h - 1) |-> [cx \in 0..(w - 1) |-> IsForeground(d, w, cx, cy)]]

\* the grid of the previous run kept when it has the same dimensions
VisitedKept(w, h) ==
    IF DOMAIN visited = 0..(h - 1) /\ DOMAIN visited[0] = 0..(w - 1)
    THEN visited
    ELSE [cy \in 0..(h - 1) |-> [cx \in 0..(w - 1) |-> FALSE]]

VisitedOf(w, h) == [cy \in 0..(h - 1) |-> [cx \in 0..(w - 1) |-> FALSE]]

\* -------------------------------------------------------------- flood fill
dx == <<-1, 0, 1, -1, 1, -1, 0, 1>>
dy == <<-1, -1, -1, 0, 0, 1, 1, 1>>
\* the loop stopping after the first four directions
DirectionsHalf == 8 \div 2
Directions == 8

\* this.binaryMatrix[cy] is undefined: reading an element of it throws
RowMissing(cy) == cy \notin DOMAIN binaryMatrix
\* this.binaryMatrix[cy][cx] on a row that exists: undefined, hence falsy,
\* past the end of the row
MaskAt(cx, cy) == cx \in DOMAIN binaryMatrix[cy] /\ binaryMatrix[cy][cx]

\* the neighbour test without its visited check
EnqueueableAgain(nx, ny, vis) ==
    /\ nx >= 0 /\ nx < width /\ ny >= 0 /\ ny < height
    /\ MaskAt(nx, ny)

\* the neighbour test of floodFill
Enqueueable(nx, ny, vis) ==
    /\ nx >= 0 /\ nx < width /\ ny >= 0 /\ ny < height
    /\ MaskAt(nx, ny)
    /\ ~vis[ny][nx]

\* the neighbour test of floodFill reads a missing row for a neighbour of
\* (px, py) inside the declared dimensions
FillThrows(px, py) ==
    \E i \in 1..Directions :
        LET nx == px + dx[i]
            ny == py + dy[i]
        IN nx >= 0 /\ nx < width /\ ny >= 0 /\ ny < height /\ RowMissing(ny)

\* the for loop over the eight neighbours of (px, py), from direction i on
RECURSIVE VisitNeighbours(_, _, _, _, _)
VisitNeighbours(i, px, py, vis, q) ==
    IF i > Directions THEN [visited |-> vis, queue |-> q]
    ELSE LET nx == px + dx[i]
             ny == py + dy[i]
         IN IF Enqueueable(nx, ny, vis)
            THEN VisitNeighbours(i + 1, px, py,
                                 [vis EXCEPT ![ny][nx] = TRUE],
                                 Append(q, [x |-> nx, y |-> ny]))
            ELSE VisitNeighbours(i + 1, px, py, vis, q)

\* floodFill going on with the pixel list of the previous fill
PixelsKept(old) == old

\* const pixels = [] at the start of every floodFill
PixelsNew(old) == <<>>

\* floodFill leaving its start pixel unmarked
SeedNotVisited(vis, sx, sy) == vis

\* floodFill marks its start pixel before the loop
SeedVisited(vis, sx, sy) == [vis EXCEPT ![sy][sx] = TRUE]

\* the size filter at 5 pixels
minShapeSizeFive == 20 \div 4

minShapeSize == 20

\* the new shape put in front of the list
PushFront(list, shape) == <<shape>> \o list

\* shapes.push(shape)
Push(list, shape) == Append(list, shape)

\* ------------------------------------------------------ feature calculator
\* the minimum with the running value started at 0, as the maxima are
SetMinFromZero(S) == CHOOSE m \in S \cup {0} : \A e \in S \cup {0} : m <= e

SetMin(S) == CHOOSE m \in S : \A e \in S : m <= e
SetMax(S) == CHOOSE m \in S : \A e \in S : m >= e

RECURSIVE SumOf(_, _, _)
\* f[lo] + ... + f[hi], the accumulation loops of analyzeShape (summed by
\* halves to keep the evaluation shallow)
SumOf(f, lo, hi) ==
    IF lo > hi THEN 0
    ELSE IF lo = hi THEN f[lo]
    ELSE LET mid == (lo + hi) \div 2
         IN SumOf(f, lo, mid) + SumOf(f, mid + 1, hi)

\* Math.sqrt in fixed point: perimeter terms are kept in 1/PScale pixels
PScale == 100
RECURSIVE ISqrtIn(_, _, _)
ISqrtIn(n, lo, hi) ==
    IF lo >= hi THEN lo
    ELSE LET mid == (lo + hi + 1) \div 2
         IN IF mid * mid <= n THEN ISqrtIn(n, mid, hi) ELSE ISqrtIn(n, lo, mid - 1)
\* floor and ceiling of PScale * sqrt(d)
SqrtLo(d) == ISqrtIn(d * PScale * PScale, 0, 46340)
SqrtHi(d) == IF SqrtLo(d) * SqrtLo(d) = d * PScale * PScale THEN SqrtLo(d) ELSE SqrtLo(d) + 1

\* the distance taken from each pixel to itself
StepSquaredSelf(pix, i) ==
    LET ddx == pix[i].x - pix[i].x
        ddy == pix[i].y - pix[i].y
    IN ddx * ddx + ddy * ddy

\* squared distance from pixel i to its successor, wrapping to the first
StepSquared(pix, i) ==
    LET next == (i % Len(pix)) + 1
        ddx == pix[next].x - pix[i].x
        ddy == pix[next].y - pix[i].y
    IN ddx * ddx + ddy * ddy

\* the perimeter loop: bounds on PScale * perimeter
Perimeter(pix) ==
    [lo |-> SumOf([i \in 1..Len(pix) |-> SqrtLo(StepSquared(pix, i))], 1, Len(pix)),
     hi |-> SumOf([i \in 1..Len(pix) |-> SqrtHi(StepSquared(pix, i))], 1, Len(pix))]

\* 4 * Math.PI * 10^4 lies between FourPiLo and FourPiHi
FourPiLo == 125663
FourPiHi == 125664
\* circularity in thousandths: 4*pi*area / perimeter^2, or 0 when perimeter is 0
\* (a perimeter above PerimeterFine is squared in whole pixels, the square of
\* its hundredths not fitting 32-bit integers)
PerimeterFine == 46000
Circularity(area, perimeter) ==
    IF perimeter.hi = 0 THEN [lo |-> 0, hi |-> 0]
    ELSE IF perimeter.hi <= PerimeterFine
    THEN [lo |-> (FourPiLo * area) \div CeilDiv(perimeter.hi * perimeter.hi, 1000),
          hi |-> CeilDiv(FourPiHi * area, (perimeter.lo * perimeter.lo) \div 1000)]
    ELSE LET pHi == CeilDiv(perimeter.hi, PScale)
             pLo == perimeter.lo \div PScale
         IN [lo |-> (FourPiLo * area) \div (10 * pHi * pHi),
             hi |-> CeilDiv(FourPiHi * area, 10 * pLo * pLo)]

\* bounding box, centre sums, area, perimeter and circularity of a pixel list
Features(pix) ==
    LET minX == SetMin({width} \cup {pix[i].x : i \in 1..Len(pix)})
        minY == SetMin({height} \cup {pix[i].y : i \in 1..Len(pix)})
        maxX == SetMax({0} \cup {pix[i].x : i \in 1..Len(pix)})
        maxY == SetMax({0} \cup {pix[i].y : i \in 1..Len(pix)})
        perimeter == Perimeter(pix)
    IN [minX |-> minX, minY |-> minY,
        width |-> maxX - minX + 1, height |-> maxY - minY + 1,
        sumX |-> SumOf([i \in 1..Len(pix) |-> pix[i].x], 1, Len(pix)),
        sumY |-> SumOf([i \in 1..Len(pix) |-> pix[i].y], 1, Len(pix)),
        area |-> Len(pix),
        perimeter |-> perimeter,
        circularity |-> Circularity(Len(pix), perimeter)]

\* -------------------------------------------------------------- classifier
\* confidences are kept in 1/ConfScale, circularity in thousandths
ConfScale == 10000
CircleThreshold == 850

\* the circle test as circularity >= 0.85
CircularityAtLeast(circ, b) ==
    IF b THEN circ.hi >= CircleThreshold ELSE circ.lo < CircleThreshold

\* can the test circularity > 0.85 come out as b
CircularityAbove(circ, b) ==
    IF b THEN circ.hi > CircleThreshold ELSE circ.lo <= CircleThreshold

\* Math.abs(aspectRatio - 1) < 0.2 with aspectRatio = w / Math.max(1, h).
\* In doubles 6/5 - 1 and 1 - 4/5 are both 0.19999999999999996, so the two
\* ratios at distance exactly 0.2 pass the test; every other ratio is decided
\* by the rational comparison.
AspectNearOne(w, h) == 5 * Abs(w - Max(1, h)) <= Max(1, h)

\* extent = area / (w * h) against 0.7 and 0.6
ExtentAboveSquare(w, h, area) == 10 * area > 7 * w * h
ExtentAboveRectangle(w, h, area) == 5 * area > 3 * w * h
\* the triangle test as extent <= 0.6
ExtentBelowOrAtTriangle(w, h, area) == 5 * area <= 3 * w * h
ExtentBelowTriangle(w, h, area) == 5 * area < 3 * w * h

Exactly(v) == [lo |-> v, hi |-> v]
\* bounds on ConfScale * (num / den)
Ratio(num, den) == [lo |-> num \div den, hi |-> CeilDiv(num, den)]

\* the chain with the rectangle branch tested before the square branch
ClassifyRectangleFirst(circAbove, circ, w, h, area) ==
    IF circAbove
    THEN [type |-> "circle",
          confidence |-> [lo |-> Min(9900, 10 * circ.lo), hi |-> Min(9900, 10 * circ.hi)]]
    ELSE IF ExtentAboveRectangle(w, h, area)
    THEN [type |-> "rectangle", confidence |-> Ratio(8000 * area, w * h)]
    ELSE IF AspectNearOne(w, h) /\ ExtentAboveSquare(w, h, area)
    THEN [type |-> "square", confidence |-> Ratio(8500 * area, w * h)]
    ELSE IF ExtentBelowTriangle(w, h, area)
    THEN [type |-> "triangle", confidence |-> Ratio(7000 * (w * h - area), w * h)]
    ELSE [type |-> "pentagon", confidence |-> Exactly(6000)]

\* the if / else-if chain: type and confidence before the size penalty
Classify(circAbove, circ, w, h, area) ==
    IF circAbove
    THEN [type |-> "circle",
          confidence |-> [lo |-> Min(9900, 10 * circ.lo), hi |-> Min(9900, 10 * circ.hi)]]
    ELSE IF AspectNearOne(w, h) /\ ExtentAboveSquare(w, h, area)
    THEN [type |-> "square", confidence |-> Ratio(8500 * area, w * h)]
    ELSE IF ExtentAboveRectangle(w, h, area)
    THEN [type |-> "rectangle", confidence |-> Ratio(8000 * area, w * h)]
    ELSE IF ExtentBelowTriangle(w, h, area)
    THEN [type |-> "triangle", confidence |-> Ratio(7000 * (w * h - area), w * h)]
    ELSE [type |-> "pentagon", confidence |-> Exactly(6000)]

\* floor of 10^4 * Math.log10(a / 100) for a = 1 .. 252
Log10Table ==
    <<
       -20000, -16990, -15229, -13980, -13011, -12219, -11550, -10970, -10458, -10000, -9587, -9209,
       -8861, -8539, -8240, -7959, -7696, -7448, -7213, -6990, -6778, -6576, -6383, -6198,
       -6021, -5851, -5687, -5529, -5377, -5229, -5087, -4949, -4815, -4686, -4560, -4437,
       -4318, -4203, -4090, -3980, -3873, -3768, -3666, -3566, -3468, -3373, -3280, -3188,
       -3099, -3011, -2925, -2840, -2758, -2677, -2597, -2519, -2442, -2366, -2292, -2219,
       -2147, -2077, -2007, -1939, -1871, -1805, -1740, -1675, -1612, -1550, -1488, -1427,
       -1367, -1308, -1250, -1192, -1136, -1080, -1024, -970, -916, -862, -810, -758,
       -706, -656, -605, -556, -507, -458, -410, -363, -316, -269, -223, -178,
       -133, -88, -44, 0, 43, 86, 128, 170, 211, 253, 293, 334,
       374, 413, 453, 492, 530, 569, 606, 644, 681, 718, 755, 791,
       827, 863, 899, 934, 969, 1003, 1038, 1072, 1105, 1139, 1172, 1205,
       1238, 1271, 1303, 1335, 1367, 1398, 1430, 1461, 1492, 1522, 1553, 1583,
       1613, 1643, 1673, 1702, 1731, 1760, 1789, 1818, 1846, 1875, 1903, 1931,
       1958, 1986, 2013, 2041, 2068, 2095, 2121, 2148, 2174, 2201, 2227, 2253,
       2278, 2304, 2329, 2355, 2380, 2405, 2430, 2455, 2479, 2504, 2528, 2552,
       2576, 2600, 2624, 2648, 2671, 2695, 2718, 2741, 2764, 2787, 2810, 2833,
       2855, 2878, 2900, 2922, 2944, 2966, 2988, 3010, 3031, 3053, 3074, 3096,
       3117, 3138, 3159, 3180, 3201, 3222, 3242, 3263, 3283, 3304, 3324, 3344,
       3364, 3384, 3404, 3424, 3443, 3463, 3483, 3502, 3521, 3541, 3560, 3579,
       3598, 3617, 3636, 3654, 3673, 3692, 3710, 3729, 3747, 3765, 3783, 3802,
       3820, 3838, 3856, 3873, 3891, 3909, 3926, 3944, 3961, 3979, 3996, 4014
    >>
Log10Lo(a) == IF a <= 252 THEN Log10Table[a] ELSE Log10Table[252]
\* the logarithm is exact at 1, 10 and 100 only; above 252 only the lower
\* bound matters, the penalty being capped at 1
Log10Hi(a) == IF a \in {1, 10, 100} THEN Log10Table[a]
              ELSE IF a <= 252 THEN Log10Table[a] + 1 ELSE 1000000

\* the penalty with offset 0.7
SizePenaltyLow(area) ==
    [lo |-> Min(ConfScale, (Log10Lo(area) \div 2) + 7000),
     hi |-> Min(ConfScale, CeilDiv(Log10Hi(area), 2) + 7000)]

\* Math.min(1, Math.log10(area / 100) / 2 + 0.8)
SizePenalty(area) ==
    [lo |-> Min(ConfScale, (Log10Lo(area) \div 2) + 8000),
     hi |-> Min(ConfScale, CeilDiv(Log10Hi(area), 2) + 8000)]

ConfidenceFloor == 1000
ConfidenceCap == 9900
\* confidence *= sizePenalty, then the clamp to [0.1, 0.99]
Penalised(confidence, penalty) ==
    LET lo == (confidence.lo * penalty.lo) \div ConfScale
        hi == CeilDiv(confidence.hi * penalty.hi, ConfScale)
    IN [lo |-> Max(ConfidenceFloor, Min(ConfidenceCap, lo)),
        hi |-> Max(ConfidenceFloor, Min(ConfidenceCap, hi))]

\* the cutoff at 0.5
MinConfidenceHalf == 10000 \div 2

MinConfidence == 6000
\* the cutoff never taken
ConfidenceBelowNever(confidence, b) == ~b

\* can the test confidence < 0.6 come out as b
ConfidenceBelow(confidence, b) ==
    IF b THEN confidence.lo < MinConfidence ELSE confidence.hi >= MinConfidence

\* the floor at one pixel
minPixelsOne == 10 \div 10

minPixels == 10

\* one way analyzeShape can run on a non-degenerate pixel list
Analysis(pix, f, circAbove, dropped) ==
    LET class == Classify(circAbove, f.circularity, f.width, f.height, f.area)
        penalty == SizePenalty(f.area)
        confidence == Penalised(class.confidence, penalty)
    IN [pixels |-> pix,
        type |-> class.type,
        features |-> f,
        classConfidence |-> class.confidence,
        sizePenalty |-> penalty,
        confidence |-> confidence,
        shape |-> IF dropped THEN Null
                  ELSE [type |-> class.type,
                        confidence |-> confidence,
                        boundingBox |-> [x |-> f.minX, y |-> f.minY,
                                         width |-> f.width, height |-> f.height],
                        center |-> [x |-> [num |-> f.sumX, den |-> Len(pix)],
                                    y |-> [num |-> f.sumY, den |-> Len(pix)]],
                        area |-> f.area]]

\* the runs of analyzeShape on pix: each yields the shape returned, or Null
analyzeShape(pix) ==
    IF Len(pix) < minPixels
    THEN {[pixels |-> pix, type |-> "none", shape |-> Null]}
    ELSE LET f == Features(pix)
         IN {Analysis(pix, f, circAbove, dropped) :
               <<circAbove, dropped>> \in
                  {<<b, d>> \in BOOLEAN \X BOOLEAN :
                      /\ CircularityAbove(f.circularity, b)
                      /\ ConfidenceBelow(
                            Penalised(Classify(b, f.circularity, f.width, f.height, f.area).confidence,
                                      SizePenalty(f.area)), d)}}

\* ------------------------------------------------------------- scheduling
\* No task holds the thread
NoTask == 0
\* processImage tasks started by change events of the file input
NumTasks == 2
Tasks == 1..NumTasks
\* calls made on one detector instance
MaxCalls == 3

\* detectShapes awaiting after initializeBinaryMatrix
AfterStepAwait(task, step) == IF step = "initBinary" THEN NoTask ELSE task

\* The thread after a step of detectShapes taken at position step: the body
\* of detectShapes contains no await, so the running task keeps the thread.
AfterStep(task, step) == task

\* ----------------------------------------------------------------- actions
InitDetector ==
    /\ imageData = Null /\ width = 0 /\ height = 0 /\ data = NullData
    /\ binaryMatrix = <<>> /\ visited = <<>>
    /\ pc = "idle" /\ x = 0 /\ y = 0
    /\ shapes = <<>> /\ queue = <<>> /\ pixels = <<>> /\ result = Null
    /\ regions = <<>> /\ analysed = <<>> /\ returns = <<>>
    /\ taskPc = [t \in Tasks |-> "idle"]
    /\ taskImage = [t \in Tasks |-> Null]
    /\ active = NoTask

\* no call made yet on the EvaluationManager
NoCall == [call |-> "none", error |-> "", value |-> Null]

\* new EvaluationManager(cases)
InitManager(cases) ==
    /\ testCases = cases
    /\ results = <<>>
    /\ currentTestCaseIndex = -1
    /\ outcome = NoCall

Init == InitDetector /\ InitManager(<<>>) /\ input = Null /\ output = Null

\* detectShapes, entry: the four field assignments of a new invocation
Enter(img) ==
    /\ imageData' = img
    /\ width' = img.width
    /\ height' = img.height
    /\ data' = img.data
    /\ pc' = "initBinary"
    /\ x' = 0 /\ y' = 0 /\ shapes' = <<>> /\ queue' = <<>> /\ pixels' = <<>>
    /\ result' = Null
    /\ regions' = <<>> /\ analysed' = <<>>
    /\ UNCHANGED <<binaryMatrix, visited, returns, pure, manager>>

\* a first call on a new detector
DetectShapes ==
    /\ pc = "idle"
    /\ \E img \in Images : Enter(img)
    /\ UNCHANGED <<tasks, active>>

InitializeBinaryMatrix ==
    /\ pc = "initBinary"
    /\ binaryMatrix' = IF data = NullData THEN binaryMatrix
                       ELSE BinaryMatrixOf(data, width, height)
    /\ pc' = "initVisited"
    /\ active' = AfterStep(active, pc)
    /\ UNCHANGED <<imageData, width, height, data, visited,
                   x, y, shapes, queue, pixels, result, history, tasks, pure, manager>>

\* initializeVisited, then the declarations that open the raster scan
InitializeVisited ==
    /\ pc = "initVisited"
    /\ visited' = VisitedOf(width, height)
    /\ shapes' = <<>>
    /\ y' = 0 /\ x' = 0
    /\ pc' = "scan"
    /\ active' = AfterStep(active, pc)
    /\ UNCHANGED <<imageData, width, height, data, binaryMatrix,
                   queue, pixels, result, history, tasks, pure, manager>>

\* the outer loop restarting on the row it has finished
NextRowSame(row) == row

\* the increment of the outer loop of the raster scan
NextRow(row) == row + 1

\* one test of the raster scan; a seed pixel enters floodFill
Scan ==
    /\ pc = "scan"
    /\ y < height
    /\ x >= width \/ ~RowMissing(y)
    /\ IF x >= width
       THEN /\ y' = NextRow(y) /\ x' = 0
            /\ UNCHANGED <<visited, queue, pixels, pc>>
       ELSE IF MaskAt(x, y) /\ ~visited[y][x]
            THEN /\ queue' = <<[x |-> x, y |-> y]>>
                 /\ visited' = SeedVisited(visited, x, y)
                 /\ pixels' = PixelsNew(pixels)
                 /\ pc' = "fill"
                 /\ UNCHANGED <<x, y>>
            ELSE /\ x' = x + 1
                 /\ UNCHANGED <<y, visited, queue, pixels, pc>>
    /\ active' = AfterStep(active, pc)
    /\ UNCHANGED <<imageData, width, height, data, binaryMatrix,
                   shapes, result, history, tasks, pure, manager>>

\* floodFill clearing the mask cell of the pixel it takes from the worklist
MaskErased(mask, px, py) == [mask EXCEPT ![py][px] = FALSE]

\* the mask after an iteration of floodFill on pixel (px, py): floodFill only
\* reads this.binaryMatrix
MaskInFill(mask, px, py) == mask

\* one iteration of the while loop of floodFill
FloodFillStep ==
    /\ pc = "fill"
    /\ queue # <<>>
    /\ ~FillThrows(Head(queue).x, Head(queue).y)
    /\ LET p == Head(queue)
           r == VisitNeighbours(1, p.x, p.y, visited, Tail(queue))
       IN /\ pixels' = Append(pixels, p)
          /\ visited' = r.visited
          /\ queue' = r.queue
          /\ binaryMatrix' = MaskInFill(binaryMatrix, p.x, p.y)
    /\ active' = AfterStep(active, pc)
    /\ UNCHANGED <<imageData, width, height, data,
                   pc, x, y, shapes, result, history, tasks, pure, manager>>

\* floodFill returns; the size filter, analyzeShape and shapes.push
FloodFillReturn ==
    /\ pc = "fill"
    /\ queue = <<>>
    /\ regions' = Append(regions, pixels)
    /\ IF Len(pixels) > minShapeSize
       THEN \E run \in analyzeShape(pixels) :
               /\ analysed' = Append(analysed, run)
               /\ shapes' = IF run.shape # Null THEN Push(shapes, run.shape) ELSE shapes
       ELSE UNCHANGED <<analysed, shapes>>
    /\ x' = x + 1
    /\ pc' = "scan"
    /\ active' = AfterStep(active, pc)
    /\ UNCHANGED <<fields, y, queue, pixels, result, returns, tasks, pure, manager>>

\* the return statement of detectShapes
Return ==
    /\ pc = "scan"
    /\ y >= height
    /\ result' = [shapes |-> shapes,
                  imageStats |-> [width |-> width, height |-> height]]
    /\ returns' = Append(returns, [imageData |-> imageData, shapes |-> shapes])
    /\ pc' = "done"
    /\ UNCHANGED <<fields, x, y, shapes, queue, pixels, regions, analysed, pure, manager>>

\* a read of this.binaryMatrix[row][col] on a missing row throws a TypeError,
\* in the raster scan or in floodFill: the promise of detectShapes rejects
\* and no result is returned
TypeError ==
    /\ \/ pc = "scan" /\ y < height /\ x < width /\ RowMissing(y)
       \/ pc = "fill" /\ queue # <<>> /\ FillThrows(Head(queue).x, Head(queue).y)
    /\ pc' = "error"
    /\ UNCHANGED <<fields, x, y, shapes, queue, pixels, result, history, tasks, active, pure, manager>>

\* the caller receives the result
DetectShapesReturn ==
    /\ active = NoTask
    /\ Return
    /\ UNCHANGED <<tasks, active>>

Next ==
    \/ DetectShapes
    \/ InitializeBinaryMatrix
    \/ InitializeVisited
    \/ Scan
    \/ FloodFillStep
    \/ FloodFillReturn
    \/ DetectShapesReturn

\* one detectShapes call on a new ShapeDetector, over Images
Spec == Init /\ [][Next]_vars

\* ------------------------------------------------- the classifier on its own
FeatMaxW == 6
FeatMaxH == 6
\* circularities in thousandths, around the circle threshold and the cap
CircularitySamples == {0, 500, 849, 850, 851, 990, 995, 1257}

FeatureInputs ==
    {f \in [circularity : {Exactly(c) : c \in CircularitySamples},
            width : 1..FeatMaxW, height : 1..FeatMaxH,
            area : 1..(FeatMaxW * FeatMaxH)] : f.area <= f.width * f.height}

InitClassify ==
    InitDetector /\ InitManager(<<>>) /\ input \in FeatureInputs /\ output = Null

\* the classification chain of analyzeShape applied to the features in input
ClassifyFeatures ==
    /\ input # Null
    /\ output = Null
    /\ \E circAbove \in BOOLEAN :
          /\ CircularityAbove(input.circularity, circAbove)
          /\ output' = Classify(circAbove, input.circularity,
                                input.width, input.height, input.area)
    /\ UNCHANGED <<fields, locals, history, tasks, active, input, manager>>

NextClassify == ClassifyFeatures

SpecClassify == InitClassify /\ [][NextClassify]_vars

\* ------------------------------------------- several calls on one detector
\* two squares and a rectangle that are emitted, a blank canvas of the size
\* of the first, and a one-pixel image
ReuseImages ==
    {ImageOf(10, 11, RectCells(8, 9)), ImageOf(11, 10, RectCells(9, 8)),
     ImageOf(9, 14, RectCells(7, 12)), ImageOf(10, 11, {}), ImageOf(2, 1, {<<0, 0>>})}

\* a call on a detector that is new or has returned from its last call
Call ==
    /\ pc \in {"idle", "done"}
    /\ Len(returns) < MaxCalls
    /\ \E img \in ReuseImages : Enter(img)
    /\ UNCHANGED <<tasks, active>>

NextReuse ==
    \/ Call
    \/ InitializeBinaryMatrix
    \/ InitializeVisited
    \/ Scan
    \/ FloodFillStep
    \/ FloodFillReturn
    \/ DetectShapesReturn

SpecReuse == Init /\ [][NextReuse]_vars

\* --------------------------------------------- change events and processImage
ConcImages == {ImageOf(2, 1, {<<0, 0>>}), ImageOf(1, 2, {<<0, 1>>})}

\* a change event: the handler calls processImage, which awaits loadImage
FileChange(t) ==
    /\ active = NoTask
    /\ taskPc[t] = "idle"
    /\ taskPc' = [taskPc EXCEPT ![t] = "loading"]
    /\ UNCHANGED <<fields, locals, history, taskImage, active, pure, manager>>

\* the image has loaded: processImage resumes and calls detectShapes
ImageLoaded(t) ==
    /\ active = NoTask
    /\ taskPc[t] = "loading"
    /\ \E img \in ConcImages :
          /\ taskImage' = [taskImage EXCEPT ![t] = img]
          /\ Enter(img)
    /\ taskPc' = [taskPc EXCEPT ![t] = "detecting"]
    /\ active' = t

\* detectShapes returns to processImage, whose await gives up the thread
TaskReturn ==
    /\ active # NoTask
    /\ Return
    /\ taskPc' = [taskPc EXCEPT ![active] = "display"]
    /\ active' = NoTask
    /\ UNCHANGED taskImage

\* processImage resumes: drawImageAndShapes and displayResults
Display(t) ==
    /\ active = NoTask
    /\ taskPc[t] = "display"
    /\ taskPc' = [taskPc EXCEPT ![t] = "finished"]
    /\ UNCHANGED <<fields, locals, history, taskImage, active, pure, manager>>

NextConc ==
    \/ \E t \in Tasks : FileChange(t)
    \/ \E t \in Tasks : ImageLoaded(t)
    \/ InitializeBinaryMatrix
    \/ InitializeVisited
    \/ Scan
    \/ FloodFillStep
    \/ FloodFillReturn
    \/ TaskReturn
    \/ \E t \in Tasks : Display(t)

SpecConc == Init /\ [][NextConc]_vars

\* ----------------------------------------------------- the test images
\* createSingleShapeTest draws in a box of side 100 at (50, 50) on a canvas of
\* side 200; the images here keep these proportions with u pixels for 50,
\* u being MinUnit or Unit.
MinUnit == 3
Unit == 10
Units == {MinUnit, Unit}

\* ctx.fill and ctx.fillRect paint the pixels whose centre lies inside the
\* path; a cell c has its centre at (c[1] + 1/2, c[2] + 1/2), and the tests
\* below compare twice the coordinates.
\* ctx.arc(centerX, centerY, Math.min(width, height) / 2, 0, 2 * Math.PI)
InCircle(c, bx, by, w, h) ==
    LET ddx == (2 * c[1] + 1) - (2 * bx + w)
        ddy == (2 * c[2] + 1) - (2 * by + h)
    IN ddx * ddx + ddy * ddy <= Min(w, h) * Min(w, h)

\* ctx.fillRect(x + (width - size) / 2, y + (height - size) / 2, size, size)
InSquare(c, bx, by, w, h) ==
    LET size == Min(w, h)
        left == 2 * bx + (w - size)
        top == 2 * by + (h - size)
    IN /\ left <= 2 * c[1] + 1 /\ 2 * c[1] + 1 <= left + 2 * size
       /\ top <= 2 * c[2] + 1 /\ 2 * c[2] + 1 <= top + 2 * size

\* ctx.fillRect(x, y, width, height)
InRectangle(c, bx, by, w, h) ==
    /\ bx <= c[1] /\ c[1] < bx + w
    /\ by <= c[2] /\ c[2] < by + h

\* the path (centerX, y), (x, y + height), (x + width, y + height)
InTriangle(c, bx, by, w, h) ==
    LET ddx == (2 * c[1] + 1) - (2 * bx + w)
        ddy == (2 * c[2] + 1) - 2 * by
    IN /\ ddy >= 0 /\ ddy <= 2 * h
       /\ 2 * h * Abs(ddx) <= w * ddy

\* outward normals of the five sides of drawRegularPolygon's path, whose
\* first vertex is straight above the centre, and the cosine of 36 degrees,
\* all in thousandths
PentagonNormals ==
    <<<<588, -809>>, <<951, 309>>, <<0, 1000>>, <<-951, 309>>, <<-588, -809>>>>
Cos36 == 809
InPentagon(c, bx, by, w, h) ==
    LET ddx == (2 * c[1] + 1) - (2 * bx + w)
        ddy == (2 * c[2] + 1) - (2 * by + h)
    IN \A k \in 1..5 :
          ddx * PentagonNormals[k][1] + ddy * PentagonNormals[k][2]
             <= Min(w, h) * Cos36

\* the cells of a cw x ch canvas that drawShape paints for shape type in the
\* box of w x h at (bx, by)
DrawShape(type, cw, ch, bx, by, w, h) ==
    {c \in Cells(cw, ch) :
        CASE type = "circle" -> InCircle(c, bx, by, w, h)
          [] type = "square" -> InSquare(c, bx, by, w, h)
          [] type = "rectangle" -> InRectangle(c, bx, by, w, h)
          [] type = "triangle" -> InTriangle(c, bx, by, w, h)
          [] type = "pentagon" -> InPentagon(c, bx, by, w, h)}

ShapeTypes == {"circle", "square", "triangle", "rectangle", "pentagon"}

\* createSingleShapeTest(type), with u pixels for 50
SingleShapeTest(type, u) ==
    ImageOf(4 * u, 4 * u, DrawShape(type, 4 * u, 4 * u, u, u, 2 * u, 2 * u))

SingleShapeTests == {SingleShapeTest(type, u) : type \in ShapeTypes, u \in Units}
DiskImages == {SingleShapeTest("circle", u) : u \in Units}
TriangleImages == {SingleShapeTest("triangle", u) : u \in Units}
PentagonImages == {SingleShapeTest("pentagon", u) : u \in Units}

\* sizes of filled rectangles of more than 251 pixels: two in the proportions
\* of 100 x 50 and 50 x 100, and two whose sides are in the ratios 6 : 5 and
\* 4 : 5
RectSizes == {<<24, 12>>, <<12, 24>>, <<18, 15>>, <<16, 20>>}
\* one filled rectangle of each size, one pixel away from the canvas border
RectTests ==
    [wh \in RectSizes |->
        ImageOf(wh[1] + 2, wh[2] + 2,
                DrawShape("rectangle", wh[1] + 2, wh[2] + 2, 1, 1, wh[1], wh[2]))]

\* fillStyle 'rgba(r, g, b, 0.7)' painted over an opaque pixel: each colour
\* byte is 0.7 of the source plus 0.3 of the pixel under it, rounded
Over(rgb, under) ==
    [ch \in 1..4 |-> IF ch = 4 THEN 255 ELSE (7 * rgb[ch] + 3 * under[ch] + 5) \div 10]
CircleColor == <<52, 152, 219>>
SquareColor == <<231, 76, 60>>

\* createOverlappingShapesTest, with u pixels for 50: the circle in the box
\* of 150 at (100, 100), then the square in the box of 200 at (50, 50)
OverlappingShapesTest(u) ==
    LET cw == 6 * u
        circle == DrawShape("circle", cw, cw, 2 * u, 2 * u, 3 * u, 3 * u)
        square == DrawShape("square", cw, cw, u, u, 4 * u, 4 * u)
        first == Over(CircleColor, White)
        colours == <<White, first, Over(SquareColor, White), Over(SquareColor, first)>>
        ColourAt(c) == colours[1 + (IF c \in circle THEN 1 ELSE 0)
                                 + (IF c \in square THEN 2 ELSE 0)]
    IN [width |-> cw, height |-> cw,
        data |-> [i \in 1..(4 * cw * cw) |->
                     LET k == (i - 1) \div 4
                     IN ColourAt(<<k % cw, k \div cw>>)[((i - 1) % 4) + 1]]]
OverlapImages == {OverlappingShapesTest(u) : u \in Units}

TestImages ==
    SingleShapeTests \cup {RectTests[wh] : wh \in RectSizes} \cup OverlapImages

\* a first call on a new detector, on one of the test images
DetectTest ==
    /\ pc = "idle"
    /\ \E img \in TestImages : Enter(img)
    /\ UNCHANGED <<tasks, active>>

NextTests ==
    \/ DetectTest
    \/ InitializeBinaryMatrix
    \/ InitializeVisited
    \/ Scan
    \/ FloodFillStep
    \/ FloodFillReturn
    \/ DetectShapesReturn

SpecTests == Init /\ [][NextTests]_vars

\* ------------------------------------------- two squares on one canvas
\* side of the small squares, which the size penalty drops, and of the
\* large ones
SmallSide == 5
PairSide == 9
PairSides == {SmallSide, PairSide}
\* calls made on the detector
PairCalls == 2

\* canvas of two squares of side s: the left one at (1, 2), the right one at
\* (s + 2, 1), one background column between them
PairCanvas(s, fg) == ImageOf(2 * s + 3, s + 3, fg)
LeftSquare(s) == DrawShape("square", 2 * s + 3, s + 3, 1, 2, s, s)
RightSquare(s) == DrawShape("square", 2 * s + 3, s + 3, s + 2, 1, s, s)
TwoSquares == [s \in PairSides |-> PairCanvas(s, LeftSquare(s) \cup RightSquare(s))]
LeftOnly == [s \in PairSides |-> PairCanvas(s, LeftSquare(s))]
RightOnly == [s \in PairSides |-> PairCanvas(s, RightSquare(s))]
PairImages == UNION {{TwoSquares[s], LeftOnly[s], RightOnly[s]} : s \in PairSides}

\* a call with one of these images on a detector that is new or has returned
CallPair ==
    /\ pc \in {"idle", "done"}
    /\ Len(returns) < PairCalls
    /\ \E img \in PairImages : Enter(img)
    /\ UNCHANGED <<tasks, active>>

NextPair ==
    \/ CallPair
    \/ InitializeBinaryMatrix
    \/ InitializeVisited
    \/ Scan
    \/ FloodFillStep
    \/ FloodFillReturn
    \/ DetectShapesReturn

SpecPair == Init /\ [][NextPair]_vars

\* ------------------------------------ buffers that do not match width x height
\* img with its buffer cut to the first n bytes
Truncated(img, n) == [img EXCEPT !.data = SubSeq(img.data, 1, n)]
\* img with one more pixel of bytes than width x height x 4
Extended(img) == [img EXCEPT !.data = img.data \o ShapeColor]
\* an ImageData-like object of w x h without a data buffer
Absent(w, h) == [width |-> w, height |-> h, data |-> NullData]
WellFormed(img) ==
    img # Null /\ img.data # NullData /\ Len(img.data) = 4 * img.width * img.height

\* a filled 8 x 11 rectangle, the same with the buffer ending after row 10
\* and with a surplus pixel, a one-row image, and objects without a buffer
MalformedImages ==
    {ImageOf(10, 13, RectCells(8, 11)),
     Truncated(ImageOf(10, 13, RectCells(8, 11)), 4 * 10 * 11),
     Extended(ImageOf(10, 13, RectCells(8, 11))),
     ImageOf(2, 1, {<<0, 0>>}),
     Absent(10, 13), Absent(10, 14), Absent(2, 2)}

\* a call with one of these objects on a detector that is new or has
\* finished its last call, by returning or by throwing
CallMalformed ==
    /\ pc \in {"idle", "done", "error"}
    /\ Len(returns) < MaxCalls
    /\ \E img \in MalformedImages : Enter(img)
    /\ UNCHANGED <<tasks, active>>

\* a call without an argument: this.imageData is assigned, then the read of
\* imageData.width throws
CallNoImage ==
    /\ pc \in {"idle", "done", "error"}
    /\ Len(returns) < MaxCalls
    /\ imageData' = Null
    /\ result' = Null
    /\ pc' = "error"
    /\ UNCHANGED <<width, height, data, binaryMatrix, visited,
                   x, y, shapes, queue, pixels, history, tasks, active, pure, manager>>

NextMalformed ==
    \/ CallMalformed
    \/ CallNoImage
    \/ InitializeBinaryMatrix
    \/ InitializeVisited
    \/ Scan
    \/ FloodFillStep
    \/ FloodFillReturn
    \/ TypeError
    \/ DetectShapesReturn

SpecMalformed == Init /\ [][NextMalformed]_vars

\* ------------------------------------------- the binarizer on arbitrary bytes
BinMaxW == 2
BinMaxH == 2
\* channel bytes around the threshold
ByteSamples == {0, 239, 240, 255}

\* RGBA buffer of a white w x h canvas whose pixel at cell c holds the bytes px
PaintPixel(w, h, c, px) ==
    [i \in 1..(4 * w * h) |->
        LET k == (i - 1) \div 4
            ch == ((i - 1) % 4) + 1
        IN IF <<k % w, k \div w>> = c THEN px[ch] ELSE White[ch]]

ByteImages ==
    UNION {{[width |-> w, height |-> h, data |-> PaintPixel(w, h, c, px)] :
               c \in Cells(w, h), px \in [1..4 -> ByteSamples]} :
              w \in 1..BinMaxW, h \in 1..BinMaxH}

\* a first call on a new detector, on a buffer of sampled bytes
DetectBytes ==
    /\ pc = "idle"
    /\ \E img \in ByteImages : Enter(img)
    /\ UNCHANGED <<tasks, active>>

NextBinarize ==
    \/ DetectBytes
    \/ InitializeBinaryMatrix
    \/ InitializeVisited
    \/ Scan
    \/ FloodFillStep
    \/ FloodFillReturn
    \/ DetectShapesReturn

SpecBinarize == Init /\ [][NextBinarize]_vars

\* ------------------------------------------------------------------ claims
Foreground == {c \in Cells(width, height) : binaryMatrix[c[2]][c[1]]}

\* the positions <<region, index>> at which cell c is listed
Listed(c) ==
    {ri \in UNION {{<<r, i>> : i \in 1..Len(regions[r])} : r \in 1..Len(regions)} :
        regions[ri[1]][ri[2]] = [x |-> c[1], y |-> c[2]]}

RegionCells(r) == {<<regions[r][i].x, regions[r][i].y>> : i \in 1..Len(regions[r])}

\* C1: when detectShapes has returned, every foreground pixel of the mask is
\* listed exactly once over the pixel lists of all flood fills of the run,
\* no background pixel is listed, and the list lengths add up to the number
\* of foreground pixels.
Partition ==
    pc = "done" =>
        /\ \A c \in Cells(width, height) :
              Cardinality(Listed(c)) = (IF c \in Foreground THEN 1 ELSE 0)
        /\ \A r \in 1..Len(regions) : RegionCells(r) \subseteq Cells(width, height)
        /\ SumOf([r \in 1..Len(regions) |-> Len(regions[r])], 1, Len(regions))
              = Cardinality(Foreground)

\* a finished run with several regions, all of them below the size filter,
\* and some background
PartitionWitness ==
    /\ pc = "done"
    /\ Len(regions) >= 2
    /\ analysed = <<>>
    /\ Foreground # Cells(width, height)

\* the pixels a step appended to the worklist
Enqueued ==
    IF pc = "fill" /\ pc' = "fill" THEN SubSeq(queue', Len(queue), Len(queue'))
    ELSE IF pc = "scan" /\ pc' = "fill" THEN queue'
    ELSE <<>>

\* every pixel handled so far in the run, in order of handling
Handled ==
    LET live == IF pc = "fill" THEN pixels \o queue ELSE <<>>
        all == [r \in 1..Len(regions) |-> regions[r]]
        RECURSIVE Flat(_)
        Flat(n) == IF n = 0 THEN <<>> ELSE Flat(n - 1) \o all[n]
    IN Flat(Len(regions)) \o live

\* a step inside the scan keeps visited cells, enqueues unvisited pixels only
\* and lists no pixel twice
VisitedStep ==
    pc \in {"scan", "fill"} =>
        /\ \A c \in Cells(width, height) : visited[c[2]][c[1]] => visited'[c[2]][c[1]]
        /\ \A i \in 1..Len(Enqueued) : ~visited[Enqueued[i].y][Enqueued[i].x]
        /\ Cardinality({Handled'[i] : i \in 1..Len(Handled')}) = Len(Handled')

\* C2: every step of the raster scan and of floodFill changes visited cells
\* only from false to true, enqueues only pixels whose cell was false, and
\* leaves no pixel listed twice among the regions and the worklist.
VisitedMonotonic == [][VisitedStep]_vars

\* a second region being filled, two of its pixels listed and the worklist
\* not yet empty
VisitedMonotonicWitness ==
    /\ pc = "fill"
    /\ Len(regions) >= 1
    /\ Len(pixels) >= 2
    /\ queue # <<>>

Adjacent(c, d) == c # d /\ Abs(c[1] - d[1]) <= 1 /\ Abs(c[2] - d[2]) <= 1

RECURSIVE Closure(_, _, _)
\* the cells of fg joined to S by paths of adjacent cells of fg; frontier
\* holds the cells of S added last
Closure(S, frontier, fg) ==
    LET new == {d \in fg : d \notin S /\ \E c \in frontier : Adjacent(c, d)}
    IN IF new = {} THEN S ELSE Closure(S \cup new, new, fg)

RECURSIVE Components(_)
Components(fg) ==
    IF fg = {} THEN {}
    ELSE LET c == CHOOSE c \in fg : TRUE
             comp == Closure({c}, {c}, fg)
         IN {comp} \cup Components(fg \ comp)

\* C3: when detectShapes has returned, the regions are the maximal
\* 8-connected components of the foreground mask, one flood fill each.
RegionsAreComponents ==
    pc = "done" =>
        /\ {RegionCells(r) : r \in 1..Len(regions)} = Components(Foreground)
        /\ Len(regions) = Cardinality(Components(Foreground))

\* two regions, one of them two pixels that touch only diagonally
RegionsAreComponentsWitness ==
    /\ pc = "done"
    /\ Len(regions) = 2
    /\ \E r \in 1..2 :
          /\ Len(regions[r]) = 2
          /\ regions[r][1].x # regions[r][2].x
          /\ regions[r][1].y # regions[r][2].y

Emitted == {k \in 1..Len(analysed) : analysed[k].shape # Null}

\* C4: every shape in the shapes list has confidence in [0.6, 0.99], and a
\* region whose clamped confidence is below 0.6 adds no shape.
ConfidenceBounds ==
    /\ \A i \in 1..Len(shapes) :
          /\ shapes[i].confidence.lo >= MinConfidence
          /\ shapes[i].confidence.hi <= ConfidenceCap
    /\ \A k \in 1..Len(analysed) :
          analysed[k].confidence.hi < MinConfidence => analysed[k].shape = Null
    /\ Len(shapes) = Cardinality(Emitted)

\* a run that emitted a shape
ConfidenceBoundsWitness ==
    /\ pc = "done"
    /\ Len(shapes) = 1
    /\ shapes[1].confidence.hi < ConfidenceCap

\* region r of the run was handed to analyzeShape
Analysed(r) == \E k \in 1..Len(analysed) : analysed[k].pixels = regions[r]

\* C10: a region is discarded before feature computation exactly when it
\* has fewer than 20 pixels.
SizeFilterAtTwenty ==
    \A r \in 1..Len(regions) : (Len(regions[r]) >= 20) <=> Analysed(r)

\* guards of the chain on the features in input, in the order of the code
InputGuard ==
    [circle |-> input.circularity.lo > CircleThreshold,
     square |-> /\ AspectNearOne(input.width, input.height)
                /\ 10 * input.area > 7 * input.width * input.height,
     rectangle |-> 5 * input.area > 3 * input.width * input.height,
     triangle |-> 5 * input.area < 3 * input.width * input.height,
     pentagon |-> TRUE]

\* confidence each branch assigns, in 1/ConfScale
InputConfidence ==
    LET box == input.width * input.height
    IN [circle |-> Exactly(Min(9900, 10 * input.circularity.lo)),
        square |-> Ratio(8500 * input.area, box),
        rectangle |-> Ratio(8000 * input.area, box),
        triangle |-> Ratio(7000 * (box - input.area), box),
        pentagon |-> Exactly(6000)]

BranchOrder == <<"circle", "square", "rectangle", "triangle", "pentagon">>

\* C5: features with extent exactly 0.6 and circularity not above 0.85 are
\* classified pentagon with confidence 0.6 before the penalty.
ExtentBoundary ==
    (/\ output # Null
     /\ 5 * input.area = 3 * input.width * input.height
     /\ input.circularity.hi <= CircleThreshold)
        => (output.type = "pentagon" /\ output.confidence = Exactly(6000))

\* classified features of extent 0.6 in a nearly square box
ExtentBoundaryWitness ==
    /\ output # Null
    /\ 5 * input.area = 3 * input.width * input.height
    /\ input.circularity.hi <= CircleThreshold
    /\ input.width = 5 /\ input.height = 6

\* C6: features with circularity exactly 0.85 are not classified circle; the
\* type is that of the first of the remaining branches whose guard holds.
CircularityBoundary ==
    (output # Null /\ input.circularity = Exactly(CircleThreshold))
        => /\ output.type # "circle"
           /\ output.type = "square" <=> InputGuard.square
           /\ output.type = "rectangle" <=> (~InputGuard.square /\ InputGuard.rectangle)
           /\ output.type = "triangle" <=> InputGuard.triangle
           /\ output.type = "pentagon" <=>
                 5 * input.area = 3 * input.width * input.height

\* classified features of circularity 0.85 that satisfy the square guard
CircularityBoundaryWitness ==
    /\ output # Null
    /\ input.circularity = Exactly(CircleThreshold)
    /\ output.type = "square"

Idempotent ==
    \A i, j \in 1..Len(returns) :
        returns[i].imageData = returns[j].imageData
            => returns[i].shapes = returns[j].shapes

\* the same buffer processed first and third, with an image of other
\* dimensions in between, and a shape emitted
IdempotentWitness ==
    /\ Len(returns) = 3
    /\ returns[1].imageData = returns[3].imageData
    /\ returns[2].imageData.width # returns[1].imageData.width
    /\ returns[1].shapes # <<>>
    /\ returns[2].shapes # <<>>

\* C9: a task inside detectShapes holds the thread from the first field
\* write to the return, and the fields and masks it reads are those of its
\* own buffer.
NonInterference ==
    \A t \in Tasks :
        taskPc[t] = "detecting" =>
            /\ active = t
            /\ imageData = taskImage[t]
            /\ width = taskImage[t].width /\ height = taskImage[t].height
            /\ data = taskImage[t].data
            /\ pc \in {"initVisited", "scan", "fill"} =>
                  binaryMatrix = BinaryMatrixOf(taskImage[t].data,
                                                taskImage[t].width, taskImage[t].height)
            /\ pc \in {"scan", "fill"} =>
                  /\ DOMAIN visited = 0..(height - 1)
                  /\ \A c \in Cells(width, height) : visited[c[2]][c[1]] => binaryMatrix[c[2]][c[1]]

\* a task in the middle of a flood fill while another task has a load
\* pending
NonInterferenceWitness ==
    \E t, u \in Tasks :
        /\ t # u
        /\ taskPc[t] = "detecting" /\ pc = "fill"
        /\ taskPc[u] = "loading"

\* the mask has been built for the buffer of the running call
MaskBuilt == pc \in {"initVisited", "scan", "fill", "done"}

\* byte of colour channel ch (1 red, 2 green, 3 blue, 4 alpha) of cell c
ChannelByte(c, ch) == data[(c[2] * width + c[1]) * 4 + ch]

\* C11: once the mask is built, cell [y][x] is true exactly when the red,
\* green or blue byte at index (y*width + x)*4 is below 240, whatever the
\* alpha byte is.
BinarizerThreshold ==
    MaskBuilt =>
        \A c \in Cells(width, height) :
            binaryMatrix[c[2]][c[1]] <=> \E ch \in 1..3 : ChannelByte(c, ch) < 240

\* a finished run on a buffer holding a fully transparent black pixel, which
\* is foreground, beside an opaque white one
BinarizerThresholdWitness ==
    /\ pc = "done"
    /\ \E c, d \in Cells(width, height) :
          /\ \A ch \in 1..4 : ChannelByte(c, ch) = 0
          /\ binaryMatrix[c[2]][c[1]]
          /\ \A ch \in 1..4 : ChannelByte(d, ch) = 255
          /\ ~binaryMatrix[d[2]][d[1]]

\* C12: every call that returned a result was given a buffer of exactly
\* width x height x 4 bytes; a call given any other buffer, or none, fails.
MalformedRejected ==
    \A i \in 1..Len(returns) : WellFormed(returns[i].imageData)

\* C13: a finished run on an image of one filled disk has exactly one
\* region and exactly one shape, a circle with confidence at least 0.85.
DiskIsCircle ==
    (pc = "done" /\ imageData \in DiskImages) =>
        /\ Len(regions) = 1
        /\ Len(shapes) = 1
        /\ shapes[1].type = "circle"
        /\ shapes[1].confidence.lo >= 8500

\* C14: a finished run on an image of one filled w x h rectangle whose ratio
\* w/h differs from 1 by at least 0.2, large enough for a size penalty of 1,
\* has exactly one shape, a rectangle with confidence 0.8.
RectangleEmitted ==
    \A wh \in RectSizes :
        (/\ pc = "done" /\ imageData = RectTests[wh]
         /\ 5 * Abs(wh[1] - wh[2]) >= wh[2]
         /\ SizePenalty(wh[1] * wh[2]).lo = ConfScale)
            => /\ Len(shapes) = 1
               /\ shapes[1].type = "rectangle"
               /\ shapes[1].confidence = Exactly(8000)

\* A finished run on the two squares of side s has two regions without a
\* common pixel and two shapes, both square
TwoSquaresFound(s) ==
    (pc = "done" /\ imageData = TwoSquares[s]) =>
        /\ Len(regions) = 2
        /\ RegionCells(1) \cap RegionCells(2) = {}
        /\ Len(shapes) = 2
        /\ shapes[1].type = "square" /\ shapes[2].type = "square"

\* A call on one square of side s alone returned one of the shapes that a
\* call on both squares returned, and nothing else
AloneAsInPair(s) ==
    \A i, j \in 1..Len(returns) :
        (returns[i].imageData = TwoSquares[s]
            /\ returns[j].imageData \in {LeftOnly[s], RightOnly[s]})
        => /\ Len(returns[j].shapes) = 1
           /\ \E k \in 1..Len(returns[i].shapes) :
                 returns[i].shapes[k] = returns[j].shapes[1]

\* C15 as stated: two filled squares that are not 8-adjacent, each of more
\* than 20 pixels, give two disjoint regions and two shapes of type square,
\* each the shape its square gives when alone on the canvas.
TwoSquaresEmitted ==
    \A s \in PairSides : TwoSquaresFound(s) /\ AloneAsInPair(s)

\* C15, amended: the same for two squares of side at least 9, the side from
\* which a filled square passes the confidence cutoff.
LargeSquaresEmitted ==
    \A s \in PairSides : s >= 9 => (TwoSquaresFound(s) /\ AloneAsInPair(s))

\* the two large squares processed, then the left one alone
LargeSquaresEmittedWitness ==
    /\ pc = "done"
    /\ Len(returns) = 2
    /\ returns[1].imageData = TwoSquares[PairSide]
    /\ returns[2].imageData = LeftOnly[PairSide]
    /\ Len(returns[1].shapes) = 2
    /\ returns[2].shapes = <<returns[1].shapes[2]>>

\* no pixel of the buffer has a red, green or blue byte below 240
BlankBuffer ==
    \A c \in Cells(width, height) : \A ch \in 1..3 : ChannelByte(c, ch) >= 240

\* C16: during and after a call on a buffer without a colour byte below 240
\* no flood fill starts, no region and no shape is recorded, and the result
\* returned holds an empty shapes list.
BlankImageEmpty ==
    BlankBuffer =>
        /\ pc # "fill"
        /\ regions = <<>> /\ analysed = <<>> /\ shapes = <<>>
        /\ pc = "done" => result.shapes = <<>>

\* a call that returned on a canvas of several pixels, one of them transparent
\* with all colour bytes exactly 240
BlankImageEmptyWitness ==
    /\ pc = "done"
    /\ BlankBuffer
    /\ result.shapes = <<>>
    /\ width * height > 1
    /\ \E c \in Cells(width, height) :
          /\ \A ch \in 1..3 : ChannelByte(c, ch) = 240
          /\ ChannelByte(c, 4) = 0

\* position of pixel p in the raster scan
RowMajor(p) == p.y * width + p.x

\* C17: the seed of every region is its first pixel in raster order and the
\* seeds follow each other in raster order; every finished region above the
\* size filter has been analysed before the scan goes on, in the order of
\* the regions; the shapes list holds the shapes of the analysed regions in
\* that order; and from the start of the scan on the mask is that of the
\* whole buffer.
DiscoveryOrder ==
    LET Big(r) == Len(r) > minShapeSize
        HasShape(run) == run.shape # Null
        big == SelectSeq(regions, Big)
        emitted == SelectSeq(analysed, HasShape)
    IN /\ \A r \in 1..Len(regions) :
             \A i \in 1..Len(regions[r]) :
                 RowMajor(regions[r][1]) <= RowMajor(regions[r][i])
       /\ \A r \in 1..(Len(regions) - 1) :
             RowMajor(regions[r][1]) < RowMajor(regions[r + 1][1])
       /\ pc = "fill" /\ regions # <<>> =>
             RowMajor(regions[Len(regions)][1]) < RowMajor((pixels \o queue)[1])
       /\ Len(analysed) = Len(big)
       /\ \A k \in 1..Len(big) : analysed[k].pixels = big[k]
       /\ Len(shapes) = Len(emitted)
       /\ \A k \in 1..Len(emitted) : shapes[k] = emitted[k].shape
       /\ pc \in {"scan", "fill", "done"} =>
             binaryMatrix = BinaryMatrixOf(data, width, height)

\* a finished run with two shapes, the first of them to the right of the
\* second: its region has its seed on an earlier row
DiscoveryOrderWitness ==
    /\ pc = "done"
    /\ Len(shapes) = 2
    /\ shapes[1].boundingBox.x > shapes[2].boundingBox.x
    /\ shapes[1].boundingBox.y < shapes[2].boundingBox.y

\* C18: a region of fewer than 10 pixels is not handed on by the size
\* filter, leaves the shapes list as it is, and analyzeShape applied to its
\* pixel list returns null at its first statement, without computing a
\* feature.
DegenerateRegionsSilent ==
    /\ \A r \in 1..Len(regions) :
          Len(regions[r]) < 10 =>
              /\ ~Analysed(r)
              /\ analyzeShape(regions[r])
                    = {[pixels |-> regions[r], type |-> "none", shape |-> Null]}
    /\ Len(shapes) <= Cardinality({r \in 1..Len(regions) : Len(regions[r]) >= 10})
    /\ pc = "done" => result.shapes = shapes

\* a call that returned after filling a single isolated pixel and a second
\* region
DegenerateRegionsSilentWitness ==
    /\ pc = "done"
    /\ Len(regions) = 2
    /\ Len(regions[1]) = 1
    /\ result.shapes = <<>>

\* C19: a finished run on the single-triangle image has exactly one shape,
\* a triangle, and a finished run on the single-pentagon image has exactly
\* one shape, a pentagon.
PolygonsEmitted ==
    /\ (pc = "done" /\ imageData \in TriangleImages) =>
          (Len(shapes) = 1 /\ shapes[1].type = "triangle")
    /\ (pc = "done" /\ imageData \in PentagonImages) =>
          (Len(shapes) = 1 /\ shapes[1].type = "pentagon")

\* C20: a finished run on the image of the overlapping circle and square has
\* two shapes, one circle and one square.
OverlapTwoShapes ==
    (pc = "done" /\ imageData \in OverlapImages) =>
        /\ Len(shapes) = 2
        /\ {shapes[1].type, shapes[2].type} = {"circle", "square"}

\* --------------------------------------------------------------- termination
\* side of the largest canvas whose masks are all scanned
LiveSide == 2

\* every mask on every canvas up to LiveSide x LiveSide, the images of
\* ReuseImages, which hold regions above the size filter, and a rectangle
\* with an isolated pixel beside it, a square without its first corner, a
\* square large enough for a size penalty of 1, and rectangles of 6, 20 and
\* 21 pixels
LiveImages ==
    {ImageOf(t[1], t[2], t[3]) :
        t \in {u \in (1..LiveSide) \X (1..LiveSide) \X SUBSET Cells(LiveSide, LiveSide) :
                  u[3] \subseteq Cells(u[1], u[2])}}
    \cup ReuseImages
    \cup {ImageOf(12, 11, RectCells(8, 9) \cup {<<10, 5>>}),
          ImageOf(11, 11, RectCells(9, 9) \ {<<1, 1>>}),
          ImageOf(18, 18, RectCells(16, 16)),
          ImageOf(5, 4, RectCells(3, 2)), ImageOf(6, 7, RectCells(4, 5)),
          ImageOf(5, 9, RectCells(3, 7))}

\* a call on a new detector
DetectLive ==
    /\ pc = "idle"
    /\ \E img \in LiveImages : Enter(img)
    /\ UNCHANGED <<tasks, active>>

\* the steps of one invocation that neither end a flood fill nor start a call
Running ==
    \/ InitializeBinaryMatrix
    \/ InitializeVisited
    \/ Scan
    \/ FloodFillStep
    \/ DetectShapesReturn

\* the transfer of control of FloodFillReturn: floodFill leaves its loop on
\* an empty worklist and the raster scan goes on
FloodFillReturns == pc = "fill" /\ queue = <<>> /\ pc' = "scan"

NextLive ==
    \/ DetectLive
    \/ InitializeBinaryMatrix
    \/ InitializeVisited
    \/ Scan
    \/ FloodFillStep
    \/ FloodFillReturn
    \/ DetectShapesReturn

\* detectShapes contains no await and nothing preempts it: once entered, the
\* invocation keeps taking steps while one is possible. The calls themselves
\* are not forced. (A step from "fill" to "scan" is a FloodFillReturn step,
\* and one is possible exactly when its guard holds.)
SpecLive ==
    Init /\ [][NextLive]_vars /\ WF_vars(Running) /\ WF_pc(FloodFillReturns)

\* no pixel is listed twice among the regions and the worklist
EnqueuedOnce == Cardinality({Handled[i] : i \in 1..Len(Handled)}) = Len(Handled)

\* C21: every flood fill that starts comes back to the raster scan with an
\* empty worklist, no pixel is enqueued twice in a run, and every invocation
\* of detectShapes that starts reaches its return statement.
Termination ==
    /\ (pc = "fill") ~> (pc = "scan" /\ queue = <<>>)
    /\ (pc = "initBinary") ~> (pc = "done")
    /\ [](EnqueuedOnce /\ (pc = "done" => queue = <<>>))

\* a returned run that discarded a small region and analysed a large one
TerminationWitness ==
    /\ pc = "done"
    /\ \E r \in 1..Len(regions) : Len(regions[r]) <= minShapeSize
    /\ analysed # <<>>

\* the pixels of run k of analyzeShape, as cells
RunCells(k) == {<<analysed[k].pixels[i].x, analysed[k].pixels[i].y>> : i \in 1..Len(analysed[k].pixels)}

\* C22: the bounding box of every emitted shape starts at the least x and
\* the least y of the region and ends at the greatest ones, so that every
\* pixel of the region is inside it, each of its four sides holds a pixel
\* of the region, the area is at most width x height, and the centre is the
\* mean of the pixel coordinates and lies inside the box.
TightBoundingBox ==
    \A k \in Emitted :
        LET box == analysed[k].shape.boundingBox
            c == analysed[k].shape.center
            cells == RunCells(k)
            n == Cardinality(cells)
        IN /\ \A p \in cells : /\ box.x <= p[1] /\ p[1] < box.x + box.width
                                /\ box.y <= p[2] /\ p[2] < box.y + box.height
           /\ \E p \in cells : p[1] = box.x
           /\ \E p \in cells : p[1] = box.x + box.width - 1
           /\ \E p \in cells : p[2] = box.y
           /\ \E p \in cells : p[2] = box.y + box.height - 1
           /\ analysed[k].shape.area = n
           /\ n <= box.width * box.height
           /\ c.x.den = n /\ c.y.den = n
           /\ c.x.num = SumOf([i \in 1..n |-> analysed[k].pixels[i].x], 1, n)
           /\ c.y.num = SumOf([i \in 1..n |-> analysed[k].pixels[i].y], 1, n)
           /\ box.x * n <= c.x.num /\ c.x.num <= (box.x + box.width - 1) * n
           /\ box.y * n <= c.y.num /\ c.y.num <= (box.y + box.height - 1) * n

\* an emitted shape away from the canvas origin whose region does not fill
\* its box and whose first row starts to the right of the box
TightBoundingBoxWitness ==
    /\ pc = "done"
    /\ \E k \in Emitted :
          /\ analysed[k].shape.boundingBox.x > 0
          /\ analysed[k].shape.boundingBox.y > 0
          /\ analysed[k].shape.area
                < analysed[k].shape.boundingBox.width * analysed[k].shape.boundingBox.height
          /\ analysed[k].pixels[1].x > analysed[k].shape.boundingBox.x

\* -------------------------------------------------- the size penalty on its own
\* side of the largest bounding box the areas fill up to their whole
PenaltySide == 17
\* side of a bounding box wide enough for an emitted region of extent 1/7
WideSide == 45
PenaltySides == {4, PenaltySide - 1, PenaltySide, WideSide}

\* features of pixel lists of 1 to WideSide^2 pixels, with a circularity
\* below and one above the circle threshold
PenaltyInputs ==
    {f \in [circularity : {Exactly(0), Exactly(900)},
            width : PenaltySides, height : PenaltySides,
            area : 1..(WideSide * WideSide)] : f.area <= f.width * f.height}

InitPenalty ==
    InitDetector /\ InitManager(<<>>) /\ input \in PenaltyInputs /\ output = Null

\* analyzeShape from the length test on, applied to the features in input:
\* early return, classification chain, size penalty, clamp and cutoff
AnalyzeFeatures ==
    /\ input # Null
    /\ output = Null
    /\ IF input.area < minPixels
       THEN output' = [type |-> "none", dropped |-> TRUE]
       ELSE \E circAbove, dropped \in BOOLEAN :
               LET class == Classify(circAbove, input.circularity,
                                     input.width, input.height, input.area)
                   penalty == SizePenalty(input.area)
                   confidence == Penalised(class.confidence, penalty)
               IN /\ CircularityAbove(input.circularity, circAbove)
                  /\ ConfidenceBelow(confidence, dropped)
                  /\ output' = [type |-> class.type,
                                classConfidence |-> class.confidence,
                                sizePenalty |-> penalty,
                                confidence |-> confidence,
                                dropped |-> dropped]
    /\ UNCHANGED <<fields, locals, history, tasks, active, input, manager>>

NextPenalty == AnalyzeFeatures

SpecPenalty == InitPenalty /\ [][NextPenalty]_vars

\* analyzeShape got past its length test on the features in input
Penalty == output # Null /\ output.type # "none"

\* C23: whenever analyzeShape computes the size penalty, the factor is above
\* 0 and at most 1, the confidence after the penalty and the clamp is not
\* above the confidence assigned by the classification branch, and the factor
\* is exactly 1 when the area is 252 or more.
SizePenaltyLowers ==
    Penalty =>
        /\ output.sizePenalty.lo > 0
        /\ output.sizePenalty.hi <= ConfScale
        /\ output.confidence.lo <= output.classConfidence.lo
        /\ output.confidence.hi <= output.classConfidence.hi
        /\ input.area >= 252 => /\ output.sizePenalty = Exactly(ConfScale)
                                         /\ output.confidence.lo = Min(ConfidenceCap, output.classConfidence.lo)
                                         /\ output.confidence.hi = Min(ConfidenceCap, output.classConfidence.hi)

\* a region of 252 pixels keeps the confidence of its branch
SizePenaltyLowersWitness ==
    /\ Penalty
    /\ input.area = 252
    /\ output.confidence = output.classConfidence
    /\ ~output.dropped

\* a step of the raster scan, of floodFill or of the size filter and
\* analyzeShape leaves the input and the mask as they are, and the mask is
\* written by initializeBinaryMatrix only
FrameStep ==
    /\ pc \in {"scan", "fill"} => UNCHANGED <<imageData, data, width, height, binaryMatrix>>
    /\ binaryMatrix' # binaryMatrix => pc = "initBinary"
    /\ pc \in {"initBinary", "initVisited"} => UNCHANGED <<imageData, data, width, height>>

\* C24: from the end of binarization to the return of detectShapes the pixel
\* buffer, the image size and every cell of the foreground mask stay as they
\* are; only initializeBinaryMatrix writes the mask, once in a call.
MaskFrame == [][FrameStep]_vars

\* a second call in the middle of a flood fill, with pixels already marked
MaskFrameWitness ==
    /\ pc = "fill"
    /\ Len(returns) >= 1
    /\ Len(pixels) >= 2
    /\ \E c \in Cells(width, height) : visited[c[2]][c[1]] /\ binaryMatrix[c[2]][c[1]]

MaxShapes == 2
\* bounding boxes: one box, the same box moved right by a quarter of its
\* width, and a box beside the first
MetricBoxes ==
    {[x |-> 0, y |-> 0, width |-> 4, height |-> 4],
     [x |-> 1, y |-> 0, width |-> 4, height |-> 4],
     [x |-> 4, y |-> 0, width |-> 4, height |-> 4]}
MetricTypes == {"circle", "square"}
MetricShapes == [type : MetricTypes, boundingBox : MetricBoxes]

\* the lists of at most n shapes
RECURSIVE ShapeLists(_)
ShapeLists(n) ==
    IF n = 0 THEN {<<>>}
    ELSE LET shorter == ShapeLists(n - 1)
         IN shorter \cup {Append(l, sh) : l \in {m \in shorter : Len(m) = n - 1}, sh \in MetricShapes}

\* intersection over union of two boxes, as the fraction num / den
calculateIoU(box1, box2) ==
    LET x1 == Max(box1.x, box2.x)
        y1 == Max(box1.y, box2.y)
        x2 == Min(box1.x + box1.width, box2.x + box2.width)
        y2 == Min(box1.y + box1.height, box2.y + box2.height)
        intersection == Max(0, x2 - x1) * Max(0, y2 - y1)
        area1 == box1.width * box1.height
        area2 == box2.width * box2.height
    IN [num |-> intersection, den |-> area1 + area2 - intersection]

\* a > b for fractions with positive denominators
Greater(a, b) == a.num * b.den > b.num * a.den

RECURSIVE BestMatch(_, _, _, _, _)
\* the inner forEach over the expected shapes from index j on: the first
\* unmatched expected shape of greatest IoU with the detected box
BestMatch(box, expected, matched, j, best) ==
    IF j > Len(expected) THEN best
    ELSE IF j \in matched THEN BestMatch(box, expected, matched, j + 1, best)
    ELSE LET iou == calculateIoU(box, expected[j].boundingBox)
         IN IF Greater(iou, best.iou)
            THEN BestMatch(box, expected, matched, j + 1, [idx |-> j, iou |-> iou])
            ELSE BestMatch(box, expected, matched, j + 1, best)

RECURSIVE MatchLoop(_, _, _, _)
\* the forEach over the detected shapes from index i on; acc holds the set
\* matchedExpectedIndices and the counters and details of the result
MatchLoop(expected, detected, i, acc) ==
    IF i > Len(detected) THEN acc
    ELSE LET d == detected[i]
             best == BestMatch(d.boundingBox, expected, acc.matched, 1,
                               [idx |-> 0, iou |-> [num |-> 0, den |-> 1]])
         IN IF best.idx >= 1 /\ 2 * best.iou.num >= best.iou.den
            THEN LET isCorrect == d.type = expected[best.idx].type
                 IN MatchLoop(expected, detected, i + 1,
                       [matched |-> IF isCorrect THEN acc.matched \cup {best.idx} ELSE acc.matched,
                        truePositives |-> acc.truePositives + (IF isCorrect THEN 1 ELSE 0),
                        falsePositives |-> acc.falsePositives,
                        details |-> Append(acc.details,
                                       [expected |-> expected[best.idx].type,
                                        detected |-> d.type, isCorrect |-> isCorrect])])
            ELSE MatchLoop(expected, detected, i + 1,
                       [matched |-> acc.matched,
                        truePositives |-> acc.truePositives,
                        falsePositives |-> acc.falsePositives + 1,
                        details |-> Append(acc.details,
                                       [expected |-> "none", detected |-> d.type,
                                        isCorrect |-> FALSE])])

\* a / b || 0 as a fraction
OrZero(a, b) == IF b = 0 THEN [num |-> 0, den |-> 1] ELSE [num |-> a, den |-> b]

\* the shape-wise counters of the types that occur
ShapeWise(expected, detected, details) ==
    [t \in {expected[j].type : j \in 1..Len(expected)} \cup {detected[i].type : i \in 1..Len(detected)} |->
        [detected |-> Cardinality({i \in 1..Len(detected) : detected[i].type = t}),
         expected |-> Cardinality({j \in 1..Len(expected) : expected[j].type = t}),
         correct |-> Cardinality({i \in 1..Len(details) :
                                     details[i].isCorrect /\ details[i].detected = t})]]

calculateMetrics(testCase, detectedShapes) ==
    LET expected == testCase.expectedShapes
        m == MatchLoop(expected, detectedShapes, 1,
                       [matched |-> {}, truePositives |-> 0, falsePositives |-> 0,
                        details |-> <<>>])
        falseNegatives == Len(expected) - Cardinality(m.matched)
    IN [testCaseId |-> testCase.id,
        passed |-> m.falsePositives = 0 /\ falseNegatives = 0,
        detectedShapes |-> Len(detectedShapes),
        expectedShapes |-> Len(expected),
        truePositives |-> m.truePositives,
        falsePositives |-> m.falsePositives,
        falseNegatives |-> falseNegatives,
        precision |-> OrZero(m.truePositives, m.truePositives + m.falsePositives),
        recall |-> OrZero(m.truePositives, m.truePositives + falseNegatives),
        f1Score |-> OrZero(2 * m.truePositives,
                           IF m.truePositives = 0 THEN 0
                           ELSE 2 * m.truePositives + m.falsePositives + falseNegatives),
        shapeWiseResults |-> ShapeWise(expected, detectedShapes, m.details),
        details |-> m.details]

MetricInputs ==
    [testCase : [id : {"t"}, expectedShapes : ShapeLists(MaxShapes)],
     detectedShapes : ShapeLists(MaxShapes)]

InitMetrics ==
    InitDetector /\ InitManager(<<>>) /\ input \in MetricInputs /\ output = Null

\* one call of calculateMetrics on the test case and the detections in input
CalculateMetrics ==
    /\ input # Null
    /\ output = Null
    /\ output' = calculateMetrics(input.testCase, input.detectedShapes)
    /\ UNCHANGED <<fields, locals, history, tasks, active, input, manager>>

NextMetrics == CalculateMetrics

SpecMetrics == InitMetrics /\ [][NextMetrics]_vars

\* detected shape i and expected shape j have the same type and IoU >= 0.5
Matches(i, j) ==
    /\ input.detectedShapes[i].type = input.testCase.expectedShapes[j].type
    /\ LET iou == calculateIoU(input.detectedShapes[i].boundingBox,
                               input.testCase.expectedShapes[j].boundingBox)
       IN 2 * iou.num >= iou.den

\* C27: a result with passed = true has as many true positives as detected
\* shapes and as expected shapes, every detected shape is matched to an
\* expected shape of its type with IoU >= 0.5, and no expected shape is
\* matched by two detected shapes.
PassCriterion ==
    (output # Null /\ output.passed) =>
        /\ output.truePositives = output.detectedShapes
        /\ output.truePositives = output.expectedShapes
        /\ \A i \in 1..Len(output.details) : output.details[i].isCorrect
        /\ \E f \in [1..Len(input.detectedShapes) -> 1..Len(input.testCase.expectedShapes)] :
              /\ \A i \in DOMAIN f : Matches(i, f[i])
              /\ \A i, k \in DOMAIN f : f[i] = f[k] => i = k

MaxTestCases == 2
MaxResults == 2

\* ids of test cases; the empty string is falsy in the test of evaluate
TestCaseIds == {"", "a", "b"}

\* two test cases with the same id and different expectations, and one whose
\* id is the empty string; no test case has id "b"
ManagerCases ==
    {[id |-> "a", expectedShapes |-> <<>>],
     [id |-> "a", expectedShapes |->
         <<[type |-> "circle", boundingBox |-> [x |-> 0, y |-> 0, width |-> 4, height |-> 4]]>>],
     [id |-> "", expectedShapes |-> <<>>]}

RECURSIVE CaseLists(_)
\* the lists of at most n test cases
CaseLists(n) ==
    IF n = 0 THEN {<<>>}
    ELSE LET shorter == CaseLists(n - 1)
         IN shorter \cup {Append(l, tc) : l \in {m \in shorter : Len(m) = n - 1}, tc \in ManagerCases}

\* the detectedShapes arguments of evaluate
DetectedLists ==
    {<<>>, <<[type |-> "circle", boundingBox |-> [x |-> 0, y |-> 0, width |-> 4, height |-> 4]]>>}

\* the optional testCaseId argument: left out, or one of the ids
TestCaseIdArgs ==
    {[given |-> FALSE, id |-> ""]} \cup {[given |-> TRUE, id |-> i] : i \in TestCaseIds}

\* the test `testCaseId ? ... : ...`: undefined and "" are falsy
Truthy(arg) == arg.given /\ arg.id # ""

\* an array read this.testCases[index]: the element, or undefined (Null)
ElementAt(list, index) ==
    IF index + 1 \in DOMAIN list THEN list[index + 1] ELSE Null

\* find ignoring the id
FindFirst(list, id) == ElementAt(list, 0)

\* this.testCases.find(tc => tc.id === id): the first such, or undefined
Find(list, id) ==
    IF \E i \in DOMAIN list : list[i].id = id
    THEN list[SetMin({i \in DOMAIN list : list[i].id = id})]
    ELSE Null

\* addTestCase selecting the test case it adds
IndexSelectingLast(index, list) == Len(list)

\* currentTestCaseIndex after addTestCase on the list of test cases: no
\* method of the class assigns the field
IndexAfterAdd(index, list) == index

InitEvaluation ==
    /\ InitDetector
    /\ \E cases \in CaseLists(MaxTestCases) : InitManager(cases)
    /\ input = Null /\ output = Null

AddTestCase ==
    /\ Len(testCases) < MaxTestCases
    /\ \E tc \in ManagerCases :
          /\ testCases' = Append(testCases, tc)
          /\ outcome' = [call |-> "addTestCase", error |-> "", value |-> tc]
    /\ currentTestCaseIndex' = IndexAfterAdd(currentTestCaseIndex, testCases)
    /\ UNCHANGED <<fields, locals, history, tasks, active, pure, results>>

GetTestCase ==
    /\ \E index \in 0..MaxTestCases :
          outcome' = [call |-> "getTestCase", error |-> "", value |-> ElementAt(testCases, index)]
    /\ UNCHANGED <<fields, locals, history, tasks, active, pure,
                   testCases, results, currentTestCaseIndex>>

GetCurrentTestCase ==
    /\ outcome' = [call |-> "getCurrentTestCase", error |-> "",
                   value |-> ElementAt(testCases, currentTestCaseIndex)]
    /\ UNCHANGED <<fields, locals, history, tasks, active, pure,
                   testCases, results, currentTestCaseIndex>>

GetTestCases ==
    /\ outcome' = [call |-> "getTestCases", error |-> "", value |-> testCases]
    /\ UNCHANGED <<fields, locals, history, tasks, active, pure,
                   testCases, results, currentTestCaseIndex>>

GetResults ==
    /\ outcome' = [call |-> "getResults", error |-> "", value |-> results]
    /\ UNCHANGED <<fields, locals, history, tasks, active, pure,
                   testCases, results, currentTestCaseIndex>>

\* evaluate(detectedShapes, testCaseId): the promise rejects with the error
\* thrown, or resolves with the result pushed on this.results
Evaluate ==
    /\ Len(results) < MaxResults
    /\ \E detectedShapes \in DetectedLists, testCaseId \in TestCaseIdArgs :
          LET testCase == IF Truthy(testCaseId) THEN Find(testCases, testCaseId.id)
                          ELSE ElementAt(testCases, currentTestCaseIndex)
          IN IF testCase = Null
             THEN /\ outcome' = [call |-> "evaluate", error |-> "No test case found",
                                 value |-> [testCaseId |-> testCaseId]]
                  /\ UNCHANGED results
             ELSE LET r == calculateMetrics(testCase, detectedShapes)
                  IN /\ results' = Append(results, r)
                     /\ outcome' = [call |-> "evaluate", error |-> "",
                                    value |-> [testCaseId |-> testCaseId, result |-> r,
                                               testCase |-> testCase]]
    /\ UNCHANGED <<fields, locals, history, tasks, active, pure,
                   testCases, currentTestCaseIndex>>

NextEvaluation ==
    \/ AddTestCase
    \/ GetTestCase
    \/ GetCurrentTestCase
    \/ GetTestCases
    \/ GetResults
    \/ Evaluate

\* calls on one EvaluationManager constructed with at most MaxTestCases cases
SpecEvaluation == InitEvaluation /\ [][NextEvaluation]_vars

\* the step is a call of evaluate
EvaluateCalled == outcome'.call = "evaluate" /\ (outcome' # outcome \/ results' # results)

\* what a call of evaluate with a testCaseId does, and what every other call
\* leaves alone
EvaluateStep ==
    /\ EvaluateCalled =>
          LET arg == outcome'.value.testCaseId
              stored == \E i \in DOMAIN testCases : testCases[i].id = arg.id
          IN /\ outcome'.error \in {"", "No test case found"}
             /\ (Truthy(arg) /\ ~stored) =>
                   /\ outcome'.error = "No test case found"
                   /\ results' = results
             /\ (Truthy(arg) /\ stored) => outcome'.error = ""
             /\ outcome'.error # "" => results' = results
             /\ outcome'.error = "" =>
                   /\ Len(results') = Len(results) + 1
                   /\ SubSeq(results', 1, Len(results)) = results
                   /\ results'[Len(results')] = outcome'.value.result
                   /\ outcome'.value.result.testCaseId = outcome'.value.testCase.id
                   /\ Truthy(arg) => outcome'.value.testCase.id = arg.id
                   /\ \E i \in DOMAIN testCases : testCases[i] = outcome'.value.testCase
    /\ ~EvaluateCalled => results' = results

CurrentNeverSet ==
    /\ currentTestCaseIndex = -1
    /\ outcome.call = "getCurrentTestCase" => outcome.value = Null
    /\ (outcome.call = "evaluate" /\ ~outcome.value.testCaseId.given)
          => outcome.error = "No test case found"

\* evaluate without a testCaseId rejected by a manager holding two test cases
CurrentNeverSetWitness ==
    /\ outcome.call = "evaluate"
    /\ ~outcome.value.testCaseId.given
    /\ outcome.error = "No test case found"
    /\ Len(testCases) = MaxTestCases

====
